---- MODULE Spec2Model ----
(***************************************************************************)
(* Model of the botconfig dashboard:                                       *)
(*   - the session store        (SupabaseProvider, src/unnamed/part_000)   *)
(*   - the route guard          (middleware + config, src/unnamed/part_001)*)
(*   - the contact dashboard    (ContactsDashboard, src/unnamed/part_002)  *)
(* Texts (paths, names, phone numbers, search queries) are sequences of    *)
(* one-character strings, so that startsWith / includes / toLowerCase are  *)
(* computed character by character as the JavaScript code does.            *)
(***************************************************************************)
EXTENDS Integers, Sequences, FiniteSets, TLC

VARIABLES
    \* ---- session store (part_000) ----
    user,              \* useState<User | null>
    session,           \* useState<Session | null>
    subscription,      \* "none" | "active" | "closed": the onAuthStateChange listener
    lastEvent,         \* history: the last auth event delivered to the listener
    nEvents,           \* history: number of auth events delivered
    userObject,        \* the object held in user: its content and its identity (Null: null)
    \* ---- route guard (part_001) ----
    cookieSession,     \* the session the auth provider holds for the browser
    reqPath,           \* pathname of the last request
    guardSession,      \* what getSession() returned for the last request
    guardResult,       \* decision of the guard for the last request
    location,          \* pathname of the page currently shown
    \* ---- contact dashboard (part_002) ----
    store,             \* rows of the remote "contacts" table
    today,             \* local calendar date read by new Date()
    mounted,           \* whether the dashboard is mounted (its mount effects have run)
    renderedUser,      \* the user object of the dashboard's last render (Null: null)
    renderedDialog,    \* deleteModalOpen and contactToDelete as of the last render
    unfiltered,        \* contacts was replaced and the filter effect has not run since
    pushed,            \* pathname of the navigation router.push started (<<>>: none)
    contacts,          \* useState<Contact[]>
    filteredContacts,  \* useState<Contact[]>
    searchQuery,       \* useState("")
    dateFilter,        \* useState<DateFilter>("all")
    deleteModalOpen,   \* useState(false)
    contactToDelete,   \* useState<Contact | null>
    currentPage,       \* useState(1)
    reqs,              \* every request issued so far, with its progress
    lastOp,            \* history: the user gesture handled in the last step, if any
    lastClicked,       \* history: contact of the most recent delete-click
    lastFetched,       \* history: result of the last successful fetch applied
    inputs             \* history: inputs handled by a shown page, in units (see MaxInputs)

sessionVars == <<user, session, subscription, lastEvent, nEvents, userObject>>
guardVars   == <<cookieSession, reqPath, guardSession, guardResult, location>>
\* The dashboard's variables but lastOp, which every step writes.
dashRest    == <<store, today, mounted, renderedUser, renderedDialog, unfiltered, pushed,
                 contacts, filteredContacts, searchQuery,
                 dateFilter, deleteModalOpen, contactToDelete, currentPage,
                 reqs, lastClicked, lastFetched, inputs>>
dashVars    == <<dashRest, lastOp>>
vars == <<sessionVars, guardVars, dashVars>>

\* JavaScript null / undefined.
Null == [null |-> TRUE]

-----------------------------------------------------------------------------
\* Text helpers.

\* String.prototype.startsWith
StartsWith(s, prefix) ==
    /\ Len(s) >= Len(prefix)
    /\ SubSeq(s, 1, Len(prefix)) = prefix

\* String.prototype.includes
Includes(s, sub) ==
    \E i \in 0..(Len(s) - Len(sub)) : SubSeq(s, i + 1, i + Len(sub)) = sub

UpperToLower ==
    [c \in {"A", "B", "C", "D", "E", "N", "O"} |->
        CASE c = "A" -> "a" [] c = "B" -> "b" [] c = "C" -> "c" [] c = "D" -> "d"
          [] c = "E" -> "e" [] c = "N" -> "n" [] c = "O" -> "o"]

\* String.prototype.toLowerCase over the alphabet of the model
ToLowerCase(s) ==
    [i \in 1..Len(s) |-> IF s[i] \in DOMAIN UpperToLower THEN UpperToLower[s[i]] ELSE s[i]]

RECURSIVE SplitFrom(_, _, _)
\* the "/"-separated segments of s from position i on, cur being the segment so far
SplitFrom(s, i, cur) ==
    IF i > Len(s) THEN <<cur>>
    ELSE IF s[i] = "/" THEN <<cur>> \o SplitFrom(s, i + 1, <<>>)
    ELSE SplitFrom(s, i + 1, Append(cur, s[i]))

-----------------------------------------------------------------------------
\* Session store: SupabaseProvider.

UserA == [id |-> "ua"]
UserB == [id |-> "ub"]
Sessions ==
    { [user |-> UserA, access_token |-> "t1"],
      [user |-> UserA, access_token |-> "t2"],
      [user |-> UserB, access_token |-> "t1"] }

\* The (event, session) pairs the auth provider emits.
AuthEvents ==
    { [event |-> "SIGNED_IN", session |-> s] : s \in Sessions }
    \cup { [event |-> "SIGNED_OUT", session |-> Null] }

NoEvent == [event |-> "none", session |-> Null]

\* Faulty variant of ListenerUser: the else branch forgets setUser(null).
MutListenerUser(s) == IF s # Null THEN s.user ELSE user

\* user after the listener handled payload s:  setUser(session.user) / setUser(null)
ListenerUser(s) == IF s # Null THEN s.user ELSE Null

\* session after the listener handled payload s:  setSession(session) / setSession(null)
ListenerSession(s) == IF s # Null THEN s ELSE Null

SessionInit ==
    /\ user = Null
    /\ session = Null
    /\ subscription = "none"
    /\ lastEvent = NoEvent
    /\ nEvents = 0
    /\ userObject = Null


-----------------------------------------------------------------------------
\* Route guard: middleware + config.matcher.

T_root      == <<"/">>
T_login     == <<"/", "l", "o", "g", "i", "n">>
T_dashboard == <<"/", "d", "a", "s", "h", "b", "o", "a", "r", "d">>

\* Pathnames requested in the model.
Paths ==
    { T_root, T_login, T_dashboard,
      T_dashboard \o <<"/">>,
      T_dashboard \o <<"/", "x">>,
      T_dashboard \o <<"/", "x", "/", "y">>,
      T_dashboard \o <<"x">>,
      T_dashboard \o <<"s">>,
      T_dashboard \o <<"-", "x", "/", "y">>,
      T_login \o <<"/">>,
      T_login \o <<"/", "x">>,
      T_login \o <<"x">>,
      <<"/", "o", "t", "h", "e", "r">>,
      <<"/", "x", "/", "d", "a", "s", "h", "b", "o", "a", "r", "d">>,
      <<"/", "x", "/", "l", "o", "g", "i", "n">>,
      <<"/", "x">>,
      T_dashboard \o <<"/", "/", "x">> }

\* Segments of a pathname: the text after the leading "/", split at "/",
\* with one trailing "/" allowed (path-to-regexp's optional trailing delimiter).
Segments(p) ==
    LET parts == SplitFrom(p, 2, <<>>)
        n     == Len(parts)
    IN  IF parts[n] = <<>> THEN SubSeq(parts, 1, n - 1) ELSE parts

\* config.matcher: ['/', '/dashboard/:path*', '/login']
Matcher(p) ==
    LET segs == Segments(p)
    IN  \/ p = T_root
        \/ /\ Len(segs) >= 1
           /\ segs[1] = Tail(T_dashboard)
           /\ \A i \in 1..Len(segs) : segs[i] # <<>>
        \/ segs = <<Tail(T_login)>>

PassThrough == [kind |-> "next"]
Redirect(to) == [kind |-> "redirect", to |-> to]

\* Faulty variant of Middleware: a signed-in request to "/" is not redirected.
MutMiddleware(s, p) ==
    IF s = Null /\ StartsWith(p, T_dashboard) THEN Redirect(T_login)
    ELSE IF s # Null /\ p = T_login THEN Redirect(T_dashboard)
    ELSE PassThrough

\* middleware(req), given the session getSession() returned
Middleware(s, p) ==
    IF s = Null /\ StartsWith(p, T_dashboard) THEN Redirect(T_login)
    ELSE IF s # Null /\ (p = T_login \/ p = T_root) THEN Redirect(T_dashboard)
    ELSE PassThrough

\* The guard as deployed: the middleware runs only on the paths the matcher selects.
RouteGuard(s, p) == IF Matcher(p) THEN Middleware(s, p) ELSE PassThrough

\* supabase.auth.getSession(): the provider's session, or none when the call fails.
GetSessionResults == {cookieSession, Null}

GuardInit ==
    /\ cookieSession = Null
    /\ reqPath = <<>>
    /\ guardSession = Null
    /\ guardResult = PassThrough
    /\ location = <<>>


-----------------------------------------------------------------------------
\* Contact dashboard: ContactsDashboard.

\* const itemsPerPage = 10
itemsPerPage == 10

\* ---- calendar dates as JavaScript's Date handles them (month is 0-based) ----

IsLeapYear(y) == (y % 4 = 0 /\ y % 100 # 0) \/ y % 400 = 0

DaysInMonth(y, m) ==
    IF m = 1 THEN (IF IsLeapYear(y) THEN 29 ELSE 28)
    ELSE IF m \in {3, 5, 8, 10} THEN 30
    ELSE 31

RECURSIVE MakeDate(_, _, _)
\* The date JavaScript makes of (year, month, day) with month or day out of range.
MakeDate(y, m, d) ==
    IF m < 0 THEN MakeDate(y - 1, m + 12, d)
    ELSE IF m > 11 THEN MakeDate(y + 1, m - 12, d)
    ELSE IF d < 1 THEN
        (IF m = 0 THEN MakeDate(y - 1, 11, d + 31)
         ELSE MakeDate(y, m - 1, d + DaysInMonth(y, m - 1)))
    ELSE IF d > DaysInMonth(y, m) THEN MakeDate(y, m + 1, d - DaysInMonth(y, m))
    ELSE [y |-> y, m |-> m, d |-> d]

\* date.setDate(n) and date.setMonth(n)
SetDate(date, n)  == MakeDate(date.y, date.m, n)
SetMonth(date, n) == MakeDate(date.y, n, date.d)

\* new Date(updated_at) >= midnight of `day`, with updated_at at day granularity
DateGE(a, day) ==
    \/ a.y > day.y
    \/ a.y = day.y /\ a.m > day.m
    \/ a.y = day.y /\ a.m = day.m /\ a.d >= day.d

Date(y, m, d) == [y |-> y, m |-> m, d |-> d]

\* ---- the remote table ----

ContactNames ==
    << <<"A", "n", "a">>, <<"B", "o", "b">>, <<"D", "a", "n">>, <<"E", "d", "n", "a">>,
       <<"C", "e", "c", "a">>, <<"N", "o", "n", "o">>, <<"B", "e", "a">>, <<"D", "e", "d", "e">>,
       <<"O", "d", "a">>, <<"N", "a", "n", "a">>, <<"C", "a", "o">>, <<"A", "b", "e">> >>

ContactDigits ==
    << <<"0", "1">>, <<"0", "2">>, <<"0", "3">>, <<"0", "4">>, <<"0", "5">>, <<"0", "6">>,
       <<"0", "7">>, <<"0", "8">>, <<"0", "9">>, <<"1", "0">>, <<"1", "1">>, <<"1", "2">> >>

ContactIds == <<"1", "2", "3", "4", "5", "6", "7", "8", "9", "10", "11", "12">>

ContactDays ==
    << Date(2024, 2, 31), Date(2024, 2, 31), Date(2024, 2, 30), Date(2024, 2, 27),
       Date(2024, 2, 25), Date(2024, 2, 20), Date(2024, 2, 15), Date(2024, 2, 10),
       Date(2024, 2, 5),  Date(2024, 2, 3),  Date(2024, 2, 2),  Date(2024, 1, 20) >>

\* Row i of the table: a Contact (created_at, which only the markup reads, is left out).
Row(i) ==
    [ id          |-> ContactIds[i],
      name        |-> ContactNames[i],
      whatsapp    |-> <<"5", "5", "1", "1">> \o ContactDigits[i],
      bot_enabled |-> (i % 2 = 0),
      updated_at  |-> ContactDays[i] ]

\* Sizes of the table at the start of a run: empty, under one page, over one page.
StoreSizes == {0, 12}

\* Local dates at which the dashboard runs.
Todays == { Date(2024, 2, 31) }

\* Texts typed into the search box.
SearchInputs == { <<>>, <<"A", "n">>, <<"0", "1">> }

DateFilters == {"all", "today", "week", "month"}

\* ---- applyFilters ----

MatchesSearch(c, q) ==
    LET query == ToLowerCase(q)
    IN  \/ Includes(ToLowerCase(c.name), query)
        \/ Includes(c.whatsapp, query)

MatchesDate(c, f, now) ==
    LET oneWeekAgo  == SetDate(now, now.d - 7)
        oneMonthAgo == SetMonth(now, now.m - 1)
    IN  CASE f = "today" -> DateGE(c.updated_at, now)
          [] f = "week"  -> DateGE(c.updated_at, oneWeekAgo)
          [] f = "month" -> DateGE(c.updated_at, oneMonthAgo)
          [] OTHER       -> TRUE

\* The value applyFilters passes to setFilteredContacts.
ApplyFilters(cs, q, f, now) ==
    LET bySearch(c) == q = <<>> \/ MatchesSearch(c, q)
        byDate(c)   == MatchesDate(c, f, now)
    IN  SelectSeq(SelectSeq(cs, bySearch), byDate)

\* Faulty variant of FiltersEffect: applyFilters without setCurrentPage(1).
MutFiltersEffect(cs, q, f, now) ==
    [filtered |-> ApplyFilters(cs, q, f, now), page |-> currentPage]

\* State left by the effect on [contacts, searchQuery, dateFilter]: applyFilters().
FiltersEffect(cs, q, f, now) ==
    [filtered |-> ApplyFilters(cs, q, f, now), page |-> 1]

\* ---- pagination ----

\* Math.ceil(n / itemsPerPage)
CeilDiv(n, k) == (n + k - 1) \div k

TotalPages == CeilDiv(Len(filteredContacts), itemsPerPage)
StartIndex == (currentPage - 1) * itemsPerPage
EndIndex   == StartIndex + itemsPerPage

\* Array.prototype.slice(from, to) with 0 <= from <= to
Slice(s, from, to) ==
    LET hi == IF to < Len(s) THEN to ELSE Len(s)
    IN  IF from >= hi THEN <<>> ELSE SubSeq(s, from + 1, hi)

CurrentContacts == Slice(filteredContacts, StartIndex, EndIndex)


\* ---- requests to the remote table ----
\* A request is "sent", then executed by the remote store ("ok" / "err": its
\* response is on the way back), then handled by the code awaiting it ("done").
\* cause: index in reqs of the mutation whose success issued this fetch (0: none).
\* next: what the awaiting code does after fetchContacts returns.

StoreRequest(kind, id, checked, cause, next) ==
    [kind |-> kind, id |-> id, checked |-> checked, cause |-> cause, next |-> next,
     stage |-> "sent", data |-> <<>>, orphan |-> FALSE]

\* supabase.from("contacts").select("*")
SelectRequest(cause, next) == StoreRequest("select", "", FALSE, cause, next)

\* supabase.from("contacts").delete().eq("id", contactToDelete.id)
DeleteRequest(contact) == StoreRequest("delete", contact.id, FALSE, 0, "none")

\* Faulty variant of UpdateRequest: sends the value the row already has.
MutUpdateRequest(contact, checked) ==
    StoreRequest("update", contact.id, contact.bot_enabled, 0, "none")

\* supabase.from("contacts").update({ bot_enabled: checked }).eq("id", contact.id)
UpdateRequest(contact, checked) == StoreRequest("update", contact.id, checked, 0, "none")

\* What the remote table holds after executing request r.
StoreAfter(s, r) ==
    LET keep(c) == c.id # r.id
    IN  CASE r.kind = "delete" -> SelectSeq(s, keep)
          [] r.kind = "update" ->
                [i \in 1..Len(s) |->
                    IF s[i].id = r.id THEN [s[i] EXCEPT !.bot_enabled = r.checked] ELSE s[i]]
          [] OTHER -> s

\* History record of a user gesture: the handler, its arguments, and the page
\* it started from.
Op(name, arg, checked) ==
    [name |-> name, arg |-> arg, checked |-> checked, page |-> currentPage]

\* History record of a step that handles no user gesture.
NoOp == [name |-> "none", arg |-> Null, checked |-> FALSE, page |-> 0]

\* Inputs a shown page handles in a run, in units: a step of the delete
\* dialogue (trash button, "Cancelar", "Excluir") counts one unit, any other
\* user gesture and an auth event count two.
MaxInputs == 4

\* The page handles an input of the given number of units.
Input(units) ==
    /\ inputs + units <= MaxInputs
    /\ inputs' = inputs + units

\* Number of auth events delivered in a run.
MaxEvents == 13

\* Rows of the shown page the user acts on: the first and the last.
Rows == {1, Len(CurrentContacts)} \cap (1..Len(CurrentContacts))

\* Objects the listener can set as user when it handles payload s: null
\* without a session; with one, session.user, which is an object of its own
\* (numbered by the event) or an object of that user delivered before: the
\* one held, or the one of the dashboard's last render. (Any other earlier
\* object compares like a new one.)
UserObjects(s) ==
    IF s = Null THEN {Null}
    ELSE {[user |-> s.user, n |-> nEvents + 1]}
         \cup {o \in {userObject, renderedUser} : o # Null /\ o.user = s.user}

\* deleteModalOpen and contactToDelete as the handlers have left them.
Dialog == [open |-> deleteModalOpen, contact |-> contactToDelete]

\* The dialog of a dashboard whose state is as constructed.
ClosedDialog == [open |-> FALSE, contact |-> Null]

\* The dashboard is the page at /dashboard; it renders only with a user
\* (line 200), after its mount effects.
Rendered == mounted /\ renderedUser # Null /\ location = T_dashboard

\* The effect on [user, router] runs at the next render: user is another object.
UserEffectDue == renderedUser # userObject

\* State was set outside a user gesture (by the auth listener, or after an
\* await) and React has not rendered since: the page on screen, and the
\* closures of its handlers, are those of the last render.
PendingRender == mounted /\ (UserEffectDue \/ unfiltered \/ renderedDialog # Dialog)

\* Another page is shown and the dashboard has not been unmounted yet.
PendingUnmount == mounted /\ location # T_dashboard

\* Neither a render nor an unmount is due: the page on screen is up to date.
Settled == ~PendingRender /\ ~PendingUnmount

\* ---- navigation through the route guard ----

\* One request for p: the guard decides, and a passed request shows its page.
GuardDecides(p) ==
    /\ \E s \in GetSessionResults :
          /\ guardSession' = s
          /\ guardResult' = RouteGuard(s, p)
          /\ location' = IF RouteGuard(s, p) = PassThrough THEN p ELSE location
    /\ reqPath' = p

\* router.push(p): starts a navigation and returns; a later push replaces it.
RouterPush(p) == pushed' = p

NoNavigation == UNCHANGED <<reqPath, guardSession, guardResult, location>>

Request(p) ==
    /\ GuardDecides(p)
    /\ lastOp' = NoOp
    /\ UNCHANGED cookieSession
    /\ UNCHANGED <<sessionVars, dashRest>>

\* The user navigates to a path.
Navigate(p) == Request(p)

\* The browser follows the redirect the guard answered with.
FollowRedirect ==
    /\ guardResult.kind = "redirect"
    /\ ~PendingUnmount
    /\ Request(guardResult.to)

\* The navigation router.push started reaches the guard, which decides on it.
PushedRequest ==
    /\ pushed # <<>>
    /\ ~PendingUnmount
    /\ GuardDecides(pushed)
    /\ pushed' = <<>>
    /\ lastOp' = NoOp
    /\ UNCHANGED cookieSession
    /\ UNCHANGED sessionVars
    /\ UNCHANGED <<store, today, mounted, renderedUser, renderedDialog, unfiltered,
                   contacts, filteredContacts,
                   searchQuery, dateFilter, deleteModalOpen, contactToDelete,
                   currentPage, reqs, lastClicked, lastFetched, inputs>>

\* The auth provider signs the browser in or out.
SetCookieSession(s) ==
    /\ cookieSession # s
    /\ cookieSession' = s
    /\ lastOp' = NoOp
    /\ NoNavigation
    /\ UNCHANGED <<sessionVars, dashRest>>

GuardNext ==
    \/ \E p \in Paths : Navigate(p)
    \/ FollowRedirect
    \/ \E s \in Sessions \cup {Null} : SetCookieSession(s)

\* ---- the effect on [user, router] (lines 81-87) ----

\* Requests the effect issues when it runs with user u: fetchContacts() with a user.
UserEffectRequests(u) == IF u = Null THEN <<>> ELSE <<SelectRequest(0, "none")>>

\* Navigation the effect starts when it runs with user u: router.push("/login") without one.
UserEffectNavigation(u) == IF u = Null THEN RouterPush(T_login) ELSE UNCHANGED pushed

\* ---- the session store's steps ----

\* useEffect(..., []) of the provider: subscribe once on mount. (The provider's
\* effects run after those of the page it wraps.)
Subscribe ==
    /\ subscription = "none"
    /\ location = T_dashboard => mounted
    /\ subscription' = "active"
    /\ lastOp' = NoOp
    /\ UNCHANGED <<user, session, lastEvent, nEvents, userObject>>
    /\ UNCHANGED <<guardVars, dashRest>>

\* The body of the onAuthStateChange callback, the user it sets being object o.
Listener(ev, o) ==
    /\ user' = ListenerUser(ev.session)
    /\ session' = ListenerSession(ev.session)
    /\ userObject' = o
    /\ lastEvent' = ev
    /\ nEvents' = nEvents + 1

\* The auth provider delivers an event to the listener.
OnAuthStateChange(ev) ==
    /\ subscription = "active"
    /\ nEvents < MaxEvents
    /\ IF location # <<>> THEN Input(2) ELSE UNCHANGED inputs
    /\ \E o \in UserObjects(ev.session) : Listener(ev, o)
    /\ lastOp' = NoOp
    /\ UNCHANGED subscription
    /\ UNCHANGED guardVars
    /\ UNCHANGED <<store, today, mounted, renderedUser, renderedDialog, unfiltered, pushed,
                   contacts, filteredContacts,
                   searchQuery, dateFilter, deleteModalOpen, contactToDelete,
                   currentPage, reqs, lastClicked, lastFetched>>

\* Cleanup of the effect: subscription.unsubscribe().
Unsubscribe ==
    /\ subscription = "active"
    /\ subscription' = "closed"
    /\ lastOp' = NoOp
    /\ UNCHANGED <<user, session, lastEvent, nEvents, userObject>>
    /\ UNCHANGED <<guardVars, dashRest>>

SessionNext ==
    \/ Subscribe
    \/ \E ev \in AuthEvents : OnAuthStateChange(ev)
    \/ Unsubscribe

\* ---- mounting, rendering and unmounting the dashboard ----

\* A user gesture on a control of the page on screen.
PageGesture ==
    /\ Rendered
    /\ Input(2)

\* A user gesture on the trash button of a row of the page on screen.
TrashGesture ==
    /\ Rendered
    /\ Input(1)

\* A user gesture on a control of the confirmation dialog, on screen while the
\* last render had deleteModalOpen.
DialogGesture ==
    /\ Rendered
    /\ renderedDialog.open
    /\ Input(1)

\* Requests of the effect on [user, router], when a render finds it due.
CommitRequests == IF UserEffectDue THEN UserEffectRequests(user) ELSE <<>>

\* Navigation of the effect on [user, router], when a render finds it due.
CommitNavigation == IF UserEffectDue THEN UserEffectNavigation(user) ELSE UNCHANGED pushed

\* A render and the effects after it, the handlers having left search text q,
\* date filter f, page number page and dialog state dialog: the page on screen
\* becomes the state; the effect on [user, router] runs if user is another
\* object; the effect on [contacts, searchQuery, dateFilter] runs if one of
\* them changed (changed: q or f did), and its setCurrentPage(1) comes last.
Commit(q, f, changed, page, dialog) ==
    /\ renderedUser' = userObject
    /\ renderedDialog' = dialog
    /\ unfiltered' = FALSE
    /\ CommitNavigation
    /\ IF unfiltered \/ changed
       THEN /\ filteredContacts' = FiltersEffect(contacts, q, f, today).filtered
            /\ currentPage' = FiltersEffect(contacts, q, f, today).page
       ELSE /\ filteredContacts' = filteredContacts
            /\ currentPage' = page

\* The effects of the first render: the effect on [user, router], and the
\* effect on [contacts, searchQuery, dateFilter]: applyFilters().
MountEffect ==
    /\ ~mounted
    /\ location = T_dashboard
    /\ mounted' = TRUE
    /\ renderedUser' = userObject
    /\ renderedDialog' = Dialog
    /\ unfiltered' = FALSE
    /\ reqs' = reqs \o UserEffectRequests(user)
    /\ UserEffectNavigation(user)
    /\ filteredContacts' = FiltersEffect(contacts, searchQuery, dateFilter, today).filtered
    /\ currentPage' = FiltersEffect(contacts, searchQuery, dateFilter, today).page
    /\ lastOp' = NoOp
    /\ UNCHANGED <<sessionVars, guardVars>>
    /\ UNCHANGED <<store, today, contacts, searchQuery, dateFilter, deleteModalOpen,
                   contactToDelete, lastClicked, lastFetched, inputs>>

\* The render React schedules after state was set outside a user gesture, and
\* the effects that run after it.
Render ==
    /\ PendingRender
    /\ ~PendingUnmount
    /\ reqs' = reqs \o CommitRequests
    /\ Commit(searchQuery, dateFilter, FALSE, currentPage, Dialog)
    /\ lastOp' = NoOp
    /\ UNCHANGED <<sessionVars, guardVars>>
    /\ UNCHANGED <<store, today, mounted, contacts, searchQuery,
                   dateFilter, deleteModalOpen, contactToDelete,
                   lastClicked, lastFetched, inputs>>

\* Another page is shown: the dashboard is unmounted, its state is dropped and
\* the state updates of its requests still in flight will apply to nothing.
Unmount ==
    /\ PendingUnmount
    /\ mounted' = FALSE
    /\ renderedUser' = Null
    /\ renderedDialog' = ClosedDialog
    /\ unfiltered' = FALSE
    /\ contacts' = <<>>
    /\ filteredContacts' = <<>>
    /\ searchQuery' = <<>>
    /\ dateFilter' = "all"
    /\ deleteModalOpen' = FALSE
    /\ contactToDelete' = Null
    /\ currentPage' = 1
    /\ reqs' = [i \in 1..Len(reqs) |-> [reqs[i] EXCEPT !.orphan = TRUE]]
    /\ lastClicked' = Null
    /\ lastFetched' = [has |-> FALSE, data |-> <<>>]
    /\ lastOp' = NoOp
    /\ UNCHANGED <<sessionVars, guardVars>>
    /\ UNCHANGED <<store, today, pushed, inputs>>

\* ---- user gestures ----
\* A gesture is handled on the page of the last render: its controls, its rows
\* and the values its handlers closed over. A handler that sets state is
\* followed by a render before the next task; one that only starts a request
\* sets none and causes no render.

\* The refresh button: onClick={fetchContacts}
Refresh ==
    /\ PageGesture
    /\ reqs' = Append(reqs, SelectRequest(0, "none"))
    /\ lastOp' = Op("fetchContacts", Null, FALSE)
    /\ UNCHANGED <<sessionVars, guardVars>>
    /\ UNCHANGED <<store, today, renderedUser, renderedDialog, unfiltered, pushed, mounted,
                   contacts, filteredContacts, searchQuery,
                   dateFilter, deleteModalOpen, contactToDelete, currentPage,
                   lastClicked, lastFetched>>

\* The search box: onChange -> setSearchQuery(value), then the filter effect.
SetSearchQuery(q) ==
    /\ PageGesture
    /\ q # searchQuery
    /\ searchQuery' = q
    /\ reqs' = reqs \o CommitRequests
    /\ Commit(q, dateFilter, TRUE, currentPage, Dialog)
    /\ lastOp' = Op("setSearchQuery", Null, FALSE)
    /\ UNCHANGED <<sessionVars, guardVars>>
    /\ UNCHANGED <<store, today, mounted, contacts, dateFilter, deleteModalOpen,
                   contactToDelete, lastClicked, lastFetched>>

\* A date menu item: onSelect -> setDateFilter(f), then the filter effect.
\* (Selecting the current value changes no state and runs no effect.)
SetDateFilter(f) ==
    /\ PageGesture
    /\ f # dateFilter
    /\ dateFilter' = f
    /\ reqs' = reqs \o CommitRequests
    /\ Commit(searchQuery, f, TRUE, currentPage, Dialog)
    /\ lastOp' = Op("setDateFilter", Null, FALSE)
    /\ UNCHANGED <<sessionVars, guardVars>>
    /\ UNCHANGED <<store, today, mounted, contacts, searchQuery, deleteModalOpen,
                   contactToDelete, lastClicked, lastFetched>>

\* goToPage(page): setCurrentPage(page)
GoToPage(page) ==
    /\ reqs' = reqs \o CommitRequests
    /\ Commit(searchQuery, dateFilter, FALSE, page, Dialog)
    /\ UNCHANGED <<sessionVars, guardVars>>
    /\ UNCHANGED <<store, today, mounted, contacts, searchQuery,
                   dateFilter, deleteModalOpen, contactToDelete,
                   lastClicked, lastFetched>>

\* "previous": onClick={() => goToPage(currentPage - 1)}, disabled={currentPage === 1}
PrevPage ==
    /\ PageGesture
    /\ currentPage # 1
    /\ GoToPage(currentPage - 1)
    /\ lastOp' = Op("prevPage", Null, FALSE)

\* "next": onClick={() => goToPage(currentPage + 1)}, disabled={currentPage === totalPages}
NextPage ==
    /\ PageGesture
    /\ currentPage # TotalPages
    /\ GoToPage(currentPage + 1)
    /\ lastOp' = Op("nextPage", Null, FALSE)

\* A numbered button, one per index of [...Array(totalPages)]: goToPage(index + 1)
NumberedPage(index) ==
    /\ PageGesture
    /\ index \in 0..(TotalPages - 1)
    /\ GoToPage(index + 1)
    /\ lastOp' = Op("numberedPage", Null, FALSE)

\* Faulty variant of SelectedContact: a selection made earlier is kept.
MutSelectedContact(contact) ==
    IF contactToDelete # Null THEN contactToDelete ELSE contact

\* contactToDelete after handleDeleteClick(contact): setContactToDelete(contact)
SelectedContact(contact) == contact

\* Requests handleDeleteClick issues: none.
DeleteClickRequests(contact) == <<>>

\* The trash button of a row: handleDeleteClick(contact)
HandleDeleteClick(contact) ==
    /\ TrashGesture
    /\ contactToDelete' = SelectedContact(contact)
    /\ deleteModalOpen' = TRUE
    /\ reqs' = reqs \o DeleteClickRequests(contact) \o CommitRequests
    /\ Commit(searchQuery, dateFilter, FALSE, currentPage,
              [open |-> TRUE, contact |-> SelectedContact(contact)])
    /\ lastClicked' = contact
    /\ lastOp' = Op("handleDeleteClick", contact, FALSE)
    /\ UNCHANGED <<sessionVars, guardVars>>
    /\ UNCHANGED <<store, today, mounted, contacts, searchQuery,
                   dateFilter, lastFetched>>

\* "Cancelar" (and the dialog's onOpenChange on dismissal): setDeleteModalOpen(false)
CancelDelete ==
    /\ DialogGesture
    /\ deleteModalOpen' = FALSE
    /\ reqs' = reqs \o CommitRequests
    /\ Commit(searchQuery, dateFilter, FALSE, currentPage,
              [open |-> FALSE, contact |-> contactToDelete])
    /\ lastOp' = Op("cancelDelete", Null, FALSE)
    /\ UNCHANGED <<sessionVars, guardVars>>
    /\ UNCHANGED <<store, today, mounted, contacts, searchQuery,
                   dateFilter, contactToDelete, lastClicked,
                   lastFetched>>

\* "Excluir": handleConfirmDelete, up to its first await. The handler is the
\* closure of the last render: its contactToDelete is that render's.
HandleConfirmDelete ==
    /\ DialogGesture
    /\ reqs' = IF renderedDialog.contact # Null
               THEN Append(reqs, DeleteRequest(renderedDialog.contact))
               ELSE reqs
    /\ lastOp' = Op("handleConfirmDelete", renderedDialog.contact, FALSE)
    /\ UNCHANGED <<sessionVars, guardVars>>
    /\ UNCHANGED <<store, today, renderedUser, renderedDialog, unfiltered, pushed, mounted,
                   contacts, filteredContacts, searchQuery,
                   dateFilter, deleteModalOpen, contactToDelete, currentPage,
                   lastClicked, lastFetched>>

\* The switch of a row: handleBotToggle(contact, checked), up to its await.
\* The switch is controlled by contact.bot_enabled and reports the opposite value.
HandleBotToggle(contact, checked) ==
    /\ PageGesture
    /\ reqs' = Append(reqs, UpdateRequest(contact, checked))
    /\ lastOp' = Op("handleBotToggle", contact, checked)
    /\ UNCHANGED <<sessionVars, guardVars>>
    /\ UNCHANGED <<store, today, renderedUser, renderedDialog, unfiltered, pushed, mounted,
                   contacts, filteredContacts, searchQuery,
                   dateFilter, deleteModalOpen, contactToDelete, currentPage,
                   lastClicked, lastFetched>>

\* supabase.auth.signOut()
SignOutRequest == StoreRequest("signOut", "", FALSE, 0, "none")

\* The "Sair" button: handleLogout, up to its await.
HandleLogout ==
    /\ PageGesture
    /\ reqs' = Append(reqs, SignOutRequest)
    /\ lastOp' = Op("handleLogout", Null, FALSE)
    /\ UNCHANGED <<sessionVars, guardVars>>
    /\ UNCHANGED <<store, today, renderedUser, renderedDialog, unfiltered, pushed, mounted,
                   contacts, filteredContacts, searchQuery,
                   dateFilter, deleteModalOpen, contactToDelete, currentPage,
                   lastClicked, lastFetched>>

\* ---- the remote services ----

\* The store executes request i and answers: applied, or an error with nothing applied.
ServerExecute(i, ok) ==
    /\ reqs[i].kind # "signOut"
    /\ reqs[i].stage = "sent"
    /\ store' = IF ok THEN StoreAfter(store, reqs[i]) ELSE store
    /\ reqs' = [reqs EXCEPT ![i].stage = IF ok THEN "ok" ELSE "err",
                            ![i].data = IF ok /\ reqs[i].kind = "select" THEN store ELSE <<>>]
    /\ lastOp' = NoOp
    /\ UNCHANGED <<sessionVars, guardVars>>
    /\ UNCHANGED <<today, renderedUser, renderedDialog, unfiltered, pushed, mounted,
                   contacts, filteredContacts, searchQuery, dateFilter,
                   deleteModalOpen, contactToDelete, currentPage, lastClicked,
                   lastFetched, inputs>>

\* The auth provider executes sign-out request i and answers: the browser's
\* session is removed, or an error with the session kept.
AuthExecute(i, ok) ==
    /\ reqs[i].kind = "signOut"
    /\ reqs[i].stage = "sent"
    /\ cookieSession' = IF ok THEN Null ELSE cookieSession
    /\ reqs' = [reqs EXCEPT ![i].stage = IF ok THEN "ok" ELSE "err"]
    /\ lastOp' = NoOp
    /\ NoNavigation
    /\ UNCHANGED sessionVars
    /\ UNCHANGED <<store, today, renderedUser, renderedDialog, unfiltered, pushed, mounted,
                   contacts, filteredContacts, searchQuery,
                   dateFilter, deleteModalOpen, contactToDelete, currentPage,
                   lastClicked, lastFetched, inputs>>

\* ---- continuations after an await ----

Answered(i, kind) == reqs[i].kind = kind /\ reqs[i].stage \in {"ok", "err"}
Done(r) == [r EXCEPT !.stage = IF r.stage = "ok" THEN "done_ok" ELSE "done_err", !.data = <<>>]

\* The fetch the handler of mutation i starts after its success.
Refetch(i, next) == [SelectRequest(i, next) EXCEPT !.orphan = reqs[i].orphan]

\* Faulty variant of FetchedContacts: setContacts(data || []) without the error test.
MutFetchedContacts(r) == r.data

\* contacts after fetchContacts handled answer r: setContacts(data || []) unless error
FetchedContacts(r) == IF r.stage = "err" THEN contacts ELSE r.data

\* fetchContacts after its await: setContacts(data || []) unless error; then,
\* in the same task, the rest of the handler that awaited it: for
\* handleConfirmDelete, setDeleteModalOpen(false) and setContactToDelete(null).
\* The state is set; the render that shows it, and the filter effect that
\* follows the new contacts, come in a later task (Render, or the render of
\* a gesture handled before).
FetchResponse(i) ==
    LET r  == reqs[i]
    IN  /\ Answered(i, "select")
        /\ ~PendingUnmount
        /\ contacts' = IF r.orphan THEN contacts ELSE FetchedContacts(r)
        /\ IF r.stage = "ok" /\ ~r.orphan
           THEN /\ unfiltered' = TRUE
                /\ lastFetched' = [has |-> TRUE, data |-> r.data]
           ELSE UNCHANGED <<unfiltered, lastFetched>>
        /\ IF r.next = "closeModal" /\ ~r.orphan
           THEN /\ deleteModalOpen' = FALSE
                /\ contactToDelete' = Null
           ELSE UNCHANGED <<deleteModalOpen, contactToDelete>>
        /\ reqs' = [reqs EXCEPT ![i] = Done(r)]
        /\ lastOp' = NoOp
        /\ UNCHANGED <<sessionVars, guardVars>>
        /\ UNCHANGED <<store, today, renderedUser, renderedDialog, pushed, mounted,
                       filteredContacts, currentPage, searchQuery, dateFilter,
                       lastClicked, inputs>>

\* Faulty variant of DeleteFailedDialog: the dialog is closed on failure too.
MutDeleteFailedDialog == [open |-> FALSE, contact |-> Null]

\* Dialog state after handleConfirmDelete handled a failed delete: untouched.
DeleteFailedDialog == Dialog

\* handleConfirmDelete after its first await.
DeleteResponse(i) ==
    LET r == reqs[i]
    IN  /\ Answered(i, "delete")
        /\ ~PendingUnmount
        /\ IF r.stage = "err"
           THEN /\ reqs' = [reqs EXCEPT ![i] = Done(r)]
                /\ deleteModalOpen' = IF r.orphan THEN deleteModalOpen
                                      ELSE DeleteFailedDialog.open
                /\ contactToDelete' = IF r.orphan THEN contactToDelete
                                      ELSE DeleteFailedDialog.contact
           ELSE /\ reqs' = Append([reqs EXCEPT ![i] = Done(r)], Refetch(i, "closeModal"))
                /\ UNCHANGED <<deleteModalOpen, contactToDelete>>
        /\ lastOp' = NoOp
        /\ UNCHANGED <<sessionVars, guardVars>>
        /\ UNCHANGED <<store, today, renderedUser, renderedDialog, unfiltered, pushed, mounted,
                       contacts, filteredContacts, searchQuery,
                       dateFilter, currentPage, lastClicked, lastFetched, inputs>>

\* Faulty variant of ToggledContacts: the toggled row is patched in place.
MutToggledContacts(r) ==
    IF r.stage = "err" THEN contacts ELSE StoreAfter(contacts, r)

\* contacts after handleBotToggle handled the answer to its update: untouched.
ToggledContacts(r) == contacts

\* handleBotToggle after its await.
ToggleResponse(i) ==
    LET r == reqs[i]
    IN  /\ Answered(i, "update")
        /\ ~PendingUnmount
        /\ reqs' = IF r.stage = "err"
                   THEN [reqs EXCEPT ![i] = Done(r)]
                   ELSE Append([reqs EXCEPT ![i] = Done(r)], Refetch(i, "none"))
        /\ contacts' = IF r.orphan THEN contacts ELSE ToggledContacts(r)
        /\ lastOp' = NoOp
        /\ UNCHANGED <<sessionVars, guardVars>>
        /\ UNCHANGED <<store, today, renderedUser, renderedDialog, unfiltered, pushed, mounted,
                       filteredContacts, searchQuery, dateFilter,
                       deleteModalOpen, contactToDelete, currentPage, lastClicked,
                       lastFetched, inputs>>

\* handleLogout after its await. A sign-out that succeeded has removed the
\* session, and the provider has told the listener so (SIGNED_OUT, no session)
\* before signOut() returned; a sign-out that failed tells the listener
\* nothing. handleLogout pushes "/login" either way.
LogoutResponse(i) ==
    LET r == reqs[i]
    IN  /\ Answered(i, "signOut")
        /\ ~PendingUnmount
        /\ IF r.stage = "ok" /\ subscription = "active"
           THEN Listener([event |-> "SIGNED_OUT", session |-> Null], Null)
           ELSE UNCHANGED <<user, session, lastEvent, nEvents, userObject>>
        /\ RouterPush(T_login)
        /\ reqs' = [reqs EXCEPT ![i] = Done(r)]
        /\ lastOp' = NoOp
        /\ UNCHANGED subscription
        /\ UNCHANGED guardVars
        /\ UNCHANGED <<store, today, mounted, renderedUser, renderedDialog, unfiltered,
                       contacts, filteredContacts,
                       searchQuery, dateFilter, deleteModalOpen, contactToDelete,
                       currentPage, lastClicked, lastFetched, inputs>>

\* ---- specifications ----

Store(n) == [i \in 1..n |-> Row(i)]

DashInit ==
    /\ store \in {Store(n) : n \in StoreSizes}
    /\ today \in Todays
    /\ mounted = FALSE
    /\ renderedUser = Null
    /\ renderedDialog = ClosedDialog
    /\ unfiltered = FALSE
    /\ pushed = <<>>
    /\ contacts = <<>>
    /\ filteredContacts = <<>>
    /\ searchQuery = <<>>
    /\ dateFilter = "all"
    /\ deleteModalOpen = FALSE
    /\ contactToDelete = Null
    /\ currentPage = 1
    /\ reqs = <<>>
    /\ lastOp = NoOp
    /\ lastClicked = Null
    /\ lastFetched = [has |-> FALSE, data |-> <<>>]
    /\ inputs = 0

\* The dashboard before it is shown, while the other components run.
DashIdle ==
    /\ DashInit
    /\ store = Store(0)
    /\ today = Date(2024, 2, 31)

DashNext ==
    \/ MountEffect
    \/ Render
    \/ Unmount
    \/ Refresh
    \/ \E q \in SearchInputs : SetSearchQuery(q)
    \/ \E f \in DateFilters : SetDateFilter(f)
    \/ PrevPage
    \/ NextPage
    \/ \E index \in 0..(TotalPages - 1) : NumberedPage(index)
    \/ \E row \in Rows : HandleDeleteClick(CurrentContacts[row])
    \/ CancelDelete
    \/ HandleConfirmDelete
    \/ \E row \in Rows :
          HandleBotToggle(CurrentContacts[row], ~CurrentContacts[row].bot_enabled)
    \/ HandleLogout
    \/ \E i \in 1..Len(reqs), ok \in BOOLEAN : ServerExecute(i, ok)
    \/ \E i \in 1..Len(reqs), ok \in BOOLEAN : AuthExecute(i, ok)
    \/ \E i \in 1..Len(reqs) : FetchResponse(i)
    \/ \E i \in 1..Len(reqs) : DeleteResponse(i)
    \/ \E i \in 1..Len(reqs) : ToggleResponse(i)
    \/ \E i \in 1..Len(reqs) : LogoutResponse(i)

\* The browser holds a session and the guard has passed its request for /dashboard.
SignedInSession == [user |-> UserA, access_token |-> "t1"]
DashboardShown ==
    /\ cookieSession = SignedInSession
    /\ reqPath = T_dashboard
    /\ guardSession = SignedInSession
    /\ guardResult = PassThrough
    /\ location = T_dashboard

\* The dashboard reached from another page of the running application: the
\* session store has handled a SIGNED_IN event already.
SignedIn ==
    /\ user = SignedInSession.user
    /\ session = SignedInSession
    /\ subscription = "active"
    /\ lastEvent = [event |-> "SIGNED_IN", session |-> SignedInSession]
    /\ nEvents = 1
    /\ userObject = [user |-> SignedInSession.user, n |-> 1]

\* The contact dashboard as first rendered at /dashboard: either the page is
\* loaded afresh (the session store is as constructed, the dashboard's effects
\* run before the provider's) or the application was running and signed in.
Init == (SessionInit \/ SignedIn) /\ DashboardShown /\ DashInit

\* The dashboard together with the session store that feeds it and the route
\* guard its navigations pass.
Next ==
    \/ DashNext
    \/ Subscribe
    \/ \E ev \in AuthEvents : OnAuthStateChange(ev)
    \/ PushedRequest
    \/ FollowRedirect

Spec == Init /\ [][Next]_vars

\* Every component as constructed, nobody signed in.
Idle == SessionInit /\ GuardInit /\ DashIdle

\* The session store alone.
SessionSpec == Idle /\ [][SessionNext]_vars

\* The route guard alone.
GuardSpec == Idle /\ [][GuardNext]_vars




-----------------------------------------------------------------------------
\* Properties.

Max(a, b) == IF a >= b THEN a ELSE b

\* ---- C1: the decision table of the route guard ----

\* The table as claimed: "starts with /dashboard" decides the first row.
ClaimedDecision(s, p) ==
    IF s = Null /\ StartsWith(p, T_dashboard) THEN Redirect(T_login)
    ELSE IF s # Null /\ (p = T_login \/ p = T_root) THEN Redirect(T_dashboard)
    ELSE PassThrough

\* p is "/dashboard", or "/dashboard/" followed by non-empty segments.
UnderDashboard(p) ==
    \/ p = T_dashboard
    \/ /\ StartsWith(p, T_dashboard \o <<"/">>)
       /\ \A i \in 1..(Len(p) - 1) : ~(p[i] = "/" /\ p[i + 1] = "/")

AmendedDecision(s, p) ==
    IF s = Null /\ UnderDashboard(p) THEN Redirect(T_login)
    ELSE IF s # Null /\ (p = T_login \/ p = T_root) THEN Redirect(T_dashboard)
    ELSE PassThrough

\* C1 as claimed: for every path and session state, no session and a path that
\* starts with "/dashboard" redirects to "/login"; a session and the path "/login"
\* or "/" redirects to "/dashboard"; everything else passes through.
C1_ClaimedGuardTable ==
    reqPath # <<>> => guardResult = ClaimedDecision(guardSession, reqPath)

\* C1 amended: the first row applies to "/dashboard" and the paths under
\* "/dashboard/" only; a path that merely starts with the text "/dashboard"
\* (such as "/dashboardx") passes through whatever the session state.
C1_GuardTable ==
    reqPath # <<>> => guardResult = AmendedDecision(guardSession, reqPath)

\* C1 witness: a signed-in browser whose session lookup failed is sent from
\* "/dashboard/x" to "/login".
C1_Witness ==
    /\ reqPath = T_dashboard \o <<"/", "x">>
    /\ guardSession = Null
    /\ cookieSession # Null
    /\ guardResult = Redirect(T_login)

\* ---- C8: the session store mirrors the last auth event ----

\* C8: identity and token start empty; after any sequence of events they are
\* those of the last event alone (session.user and session, or both empty),
\* so the identity is empty exactly when the token is.
C8_SessionMirrorsLastEvent ==
    /\ nEvents = 0 => (user = Null /\ session = Null)
    /\ nEvents > 0 =>
          IF lastEvent.session # Null
          THEN user = lastEvent.session.user /\ session = lastEvent.session
          ELSE user = Null /\ session = Null
    /\ (user = Null) <=> (session = Null)

\* C8 witness: a sign-out handled after earlier events, then the teardown.
C8_Witness ==
    /\ nEvents >= 3
    /\ lastEvent.event = "SIGNED_OUT"
    /\ user = Null
    /\ session = Null
    /\ subscription = "closed"

\* ---- C2: the current page stays within the page count ----

\* C2: in every reachable state the current page is in
\* [1, max(1, ceil(length of filtered view / 10))].
C2_PageInRange ==
    /\ currentPage >= 1
    /\ currentPage <= Max(1, CeilDiv(Len(filteredContacts), itemsPerPage))

\* ---- C3: a delete request needs a delete-click and then a confirm ----

NewRequests == { i \in 1..Len(reqs') : i > Len(reqs) }

\* C3: a delete request is issued only by a confirm taken while the dialog a
\* delete-click opened is on screen, with the id of the contact most recently
\* selected by a delete-click; a delete-click or a cancel issues no delete
\* request and touches no request issued before.
C3_TwoStepDelete ==
    [][ /\ (\E i \in NewRequests : reqs'[i].kind = "delete") =>
              /\ lastOp'.name = "handleConfirmDelete"
              /\ renderedDialog.open
              /\ lastClicked # Null
              /\ \A i \in NewRequests :
                    reqs'[i].kind = "delete" /\ reqs'[i].id = lastClicked.id
        /\ lastOp'.name \in {"handleDeleteClick", "cancelDelete"} =>
              /\ \A i \in NewRequests : reqs'[i].kind # "delete"
              /\ \A i \in 1..Len(reqs) : reqs'[i] = reqs[i]
      ]_vars

\* C3 witness: a contact was selected and its delete confirmed; then another
\* contact was selected and a confirm has just issued the delete of that one.
C3_Witness ==
    /\ lastOp.name = "handleConfirmDelete"
    /\ reqs[Len(reqs)].kind = "delete"
    /\ reqs[Len(reqs)].id = lastClicked.id
    /\ \E k \in 1..(Len(reqs) - 1) :
          reqs[k].kind = "delete" /\ reqs[k].id # lastClicked.id

\* ---- C4: the dialog after a failed delete ----

\* The step in which handleConfirmDelete handles the error answer of delete i.
FailedDeleteHandled(i) ==
    /\ reqs[i].kind = "delete"
    /\ reqs[i].stage = "err"
    /\ reqs'[i].stage = "done_err"

\* The step in which handleConfirmDelete, of a dashboard still mounted,
\* resumes after the fetch i it awaited once its delete had succeeded.
DeleteRefetchHandled(i) ==
    /\ reqs[i].kind = "select"
    /\ reqs[i].cause # 0
    /\ reqs[reqs[i].cause].kind = "delete"
    /\ ~reqs[i].orphan
    /\ reqs[i].stage \in {"ok", "err"}
    /\ reqs'[i].stage \in {"done_ok", "done_err"}

Mutations(rs) == { i \in 1..Len(rs) : rs[i].kind \in {"delete", "update"} }
FetchesCausedBy(rs, i) == { j \in 1..Len(rs) : rs[j].kind = "select" /\ rs[j].cause = i }

\* C5: a toggle or a confirmed delete issues exactly one request, carrying the
\* id of the given contact (and, for a toggle, the new bot_enabled value);
\* executing it touches the row of that id only; and a mutation whose success
\* has been handled has caused exactly one fetch, any other mutation none.
C5_ScopedMutationOneRefetch ==
    [][ /\ lastOp'.name = "handleBotToggle" =>
              /\ Len(reqs') = Len(reqs) + 1
              /\ reqs'[Len(reqs')].kind = "update"
              /\ reqs'[Len(reqs')].id = lastOp'.arg.id
              /\ reqs'[Len(reqs')].checked = lastOp'.checked
              /\ lastOp'.checked = ~lastOp'.arg.bot_enabled
        /\ lastOp'.name = "handleConfirmDelete" =>
              /\ Len(reqs') = Len(reqs) + 1
              /\ reqs'[Len(reqs')].kind = "delete"
              /\ reqs'[Len(reqs')].id = lastOp'.arg.id
        /\ \A i \in Mutations(reqs) :
              (reqs[i].stage = "sent" /\ reqs'[i].stage = "ok") =>
                  LET other(c) == c.id # reqs[i].id
                  IN  /\ SelectSeq(store', other) = SelectSeq(store, other)
                      /\ \A k \in 1..Len(store') :
                            store'[k].id = reqs[i].id =>
                                /\ reqs[i].kind = "update"
                                /\ store'[k].bot_enabled = reqs[i].checked
        /\ \A i \in Mutations(reqs') :
              Cardinality(FetchesCausedBy(reqs', i)) =
                  IF reqs'[i].stage = "done_ok" THEN 1 ELSE 0
      ]_vars

\* C5 witness: a toggle succeeded, its one refetch returned the new value.
C5_Witness ==
    \E i \in Mutations(reqs) :
        /\ reqs[i].kind = "update"
        /\ reqs[i].stage = "done_ok"
        /\ \E j \in FetchesCausedBy(reqs, i) : reqs[j].stage = "done_ok"
        /\ \E k \in 1..Len(contacts) :
              contacts[k].id = reqs[i].id /\ contacts[k].bot_enabled = reqs[i].checked

\* ---- C6: an error leaves the collection alone and starts no request ----

\* C6: in the step that handles the error answer of a fetch, delete or toggle,
\* the in-memory collection is unchanged and no request is issued or re-sent.
C6_ErrorLeavesContacts ==
    [][ \A i \in 1..Len(reqs) :
            (reqs[i].stage = "err" /\ reqs'[i].stage = "done_err") =>
                /\ contacts' = contacts
                /\ filteredContacts' = filteredContacts
                /\ Len(reqs') = Len(reqs)
                /\ \A j \in 1..Len(reqs) : reqs'[j].stage = "sent" => reqs[j].stage = "sent"
      ]_vars

\* C6 witness: a failed fetch has been handled over a loaded collection.
C6_Witness ==
    /\ Rendered
    /\ \E i \in 1..Len(reqs) : reqs[i].kind = "select" /\ reqs[i].stage = "done_err"
    /\ Len(contacts) > itemsPerPage
    /\ \A i \in 1..Len(reqs) : reqs[i].stage \in {"done_ok", "done_err"}

\* ---- C7: a filter change resets the page ----

\* C7: whenever the search text or the date filter changes to a different
\* value, the current page is 1 in the state shown next.
C7_FilterChangeResetsPage ==
    [][ (searchQuery' # searchQuery \/ dateFilter' # dateFilter) => currentPage' = 1 ]_vars

\* C7 witness: a search typed on page 2 of a two-page list led to page 1.
C7_Witness ==
    /\ lastOp.name = "setSearchQuery"
    /\ lastOp.page = 2
    /\ currentPage = 1
    /\ Len(contacts) > itemsPerPage
    /\ searchQuery # <<>>

\* ---- C9: the collection is the last successful fetch, wholesale ----

\* C9: under any interleaving every mutation whose success has been handled
\* has issued its own refetch, and the in-memory collection is the initial
\* empty collection or exactly the snapshot of the successful fetch the
\* dashboard handled most recently.
C9_LastFetchWins ==
    /\ contacts = (IF lastFetched.has THEN lastFetched.data ELSE <<>>)
    /\ \A i \in Mutations(reqs) :
          reqs[i].stage = "done_ok" => FetchesCausedBy(reqs, i) # {}

\* C9 witness: two toggles in flight together, both refetched, both refetches
\* handled, the one handled last carrying the older snapshot.
C9_Witness ==
    \E i \in 1..Len(reqs), j \in 1..Len(reqs) :
        /\ i < j
        /\ reqs[i].kind = "select" /\ reqs[j].kind = "select"
        /\ reqs[i].cause # 0 /\ reqs[j].cause # 0
        /\ reqs[j].cause < i
        /\ reqs[reqs[i].cause].kind = "update" /\ reqs[reqs[j].cause].kind = "update"
        /\ reqs[i].stage = "done_ok" /\ reqs[j].stage = "done_ok"
        /\ contacts # <<>>
        /\ contacts # store

\* ---- C10: the view settles on the store's contents ----

\* C10: with every request successful and the store changed by the dashboard
\* only, once no request is in flight the in-memory collection of the
\* dashboard on screen equals the store's contents.
C10_SettlesOnStore ==
    (Rendered /\ Settled /\ \A i \in 1..Len(reqs) : reqs[i].stage = "done_ok") => contacts = store

====
